---- MODULE Spec2Model ----
(***************************************************************************)
(* Model of src/generate-types.ts of vhtml-types: the generator that       *)
(* extracts JSX attribute interfaces from @types/react and rewrites them   *)
(* for vhtml.                                                              *)
(*                                                                         *)
(* Program text (type strings, identifiers, property names) is modelled as *)
(* sequences of one-character strings, so that toLowerCase, the regular    *)
(* expressions and the string joins of the source are computed character   *)
(* by character.  TLA+ strings are used only for the model's own tags      *)
(* (node kinds, control positions).                                        *)
(***************************************************************************)
EXTENDS Naturals, Sequences, FiniteSets

VARIABLES
    pc,                          \* control position of the running function
    attrType,                    \* normalizeAttributeType: its argument
    normalizedType,              \* normalizeAttributeType: its return value
    sourceInterface,             \* updateAttributesInterface: the node as it was when called
    interfaceNode,               \* updateAttributesInterface: the node it mutates
    thrown,                      \* the assertion error that aborted the run, or NoError
    inputSourceFile,             \* statements of the template file (input/vhtml.d.ts)
    reactSourceFile,             \* statements of @types/react's index.d.ts
    intrinsicElementsInterface,  \* path of the extracted IntrinsicElements node
    typeNamesToExtract,          \* the set of type names to extract
    extractedInterfaceNodes,     \* paths of the extracted declarations, in order
    outputFile                   \* contents of the output file on disk

vars ==
    << pc, attrType, normalizedType, sourceInterface, interfaceNode, thrown, inputSourceFile,
       reactSourceFile, intrinsicElementsInterface, typeNamesToExtract,
       extractedInterfaceNodes, outputFile >>

(***************************************************************************)
(* Text literals of the source.                                            *)
(***************************************************************************)
sString ==
    <<"s", "t", "r", "i", "n", "g">>
sAny ==
    <<"a", "n", "y">>
sEventHandler ==
    <<"E", "v", "e", "n", "t", "H", "a", "n", "d", "l", "e", "r">>
sReactNode ==
    <<"R", "e", "a", "c", "t", "N", "o", "d", "e">>
sCSSProperties ==
    <<"C", "S", "S", "P", "r", "o", "p", "e", "r", "t", "i", "e", "s">>
sBooleanish ==
    <<"B", "o", "o", "l", "e", "a", "n", "i", "s", "h">>
sBooleanUnion ==
    <<"(", "b", "o", "o", "l", "e", "a", "n", " ", "|", " ", "'", "t", "r", "u", "e", "'", " ", "|", " ", "'", "f", "a", "l", "s", "e", "'", ")">>
sUpper ==
    <<"A", "B", "C", "D", "E", "F", "G", "H", "I", "J", "K", "L", "M", "N", "O", "P", "Q", "R", "S", "T", "U", "V", "W", "X", "Y", "Z">>
sLower ==
    <<"a", "b", "c", "d", "e", "f", "g", "h", "i", "j", "k", "l", "m", "n", "o", "p", "q", "r", "s", "t", "u", "v", "w", "x", "y", "z">>
sDigitsUnderscore ==
    <<"0", "1", "2", "3", "4", "5", "6", "7", "8", "9", "_">>
sClassAttributes ==
    <<"C", "l", "a", "s", "s", "A", "t", "t", "r", "i", "b", "u", "t", "e", "s">>
sAriaAttributes ==
    <<"A", "r", "i", "a", "A", "t", "t", "r", "i", "b", "u", "t", "e", "s">>
sDOMAttributes ==
    <<"D", "O", "M", "A", "t", "t", "r", "i", "b", "u", "t", "e", "s">>
sHTMLAttributes ==
    <<"H", "T", "M", "L", "A", "t", "t", "r", "i", "b", "u", "t", "e", "s">>
sMediaHTMLAttributes ==
    <<"M", "e", "d", "i", "a", "H", "T", "M", "L", "A", "t", "t", "r", "i", "b", "u", "t", "e", "s">>
sSVGAttributes ==
    <<"S", "V", "G", "A", "t", "t", "r", "i", "b", "u", "t", "e", "s">>
sHTMLAttributeReferrerPolicy ==
    <<"H", "T", "M", "L", "A", "t", "t", "r", "i", "b", "u", "t", "e", "R", "e", "f", "e", "r", "r", "e", "r", "P", "o", "l", "i", "c", "y">>
sDefaultChecked ==
    <<"d", "e", "f", "a", "u", "l", "t", "C", "h", "e", "c", "k", "e", "d">>
sDefaultValue ==
    <<"d", "e", "f", "a", "u", "l", "t", "V", "a", "l", "u", "e">>
sSuppressContentEditableWarning ==
    <<"s", "u", "p", "p", "r", "e", "s", "s", "C", "o", "n", "t", "e", "n", "t", "E", "d", "i", "t", "a", "b", "l", "e", "W", "a", "r", "n", "i", "n", "g">>
sSuppressHydrationWarning ==
    <<"s", "u", "p", "p", "r", "e", "s", "s", "H", "y", "d", "r", "a", "t", "i", "o", "n", "W", "a", "r", "n", "i", "n", "g">>
sDangerouslySetInnerHTML ==
    <<"d", "a", "n", "g", "e", "r", "o", "u", "s", "l", "y", "S", "e", "t", "I", "n", "n", "e", "r", "H", "T", "M", "L">>
sClassName ==
    <<"c", "l", "a", "s", "s", "N", "a", "m", "e">>
sHtmlFor ==
    <<"h", "t", "m", "l", "F", "o", "r">>
sClass ==
    <<"c", "l", "a", "s", "s">>
sFor ==
    <<"f", "o", "r">>
sReact ==
    <<"R", "e", "a", "c", "t">>
sDetailedHTMLProps ==
    <<"D", "e", "t", "a", "i", "l", "e", "d", "H", "T", "M", "L", "P", "r", "o", "p", "s">>
sGlobal ==
    <<"g", "l", "o", "b", "a", "l">>
sJSX ==
    <<"J", "S", "X">>
sIntrinsicElements ==
    <<"I", "n", "t", "r", "i", "n", "s", "i", "c", "E", "l", "e", "m", "e", "n", "t", "s">>
sDot ==
    <<".">>
sLParen ==
    <<"(">>
sRParen ==
    <<")">>
sAmp ==
    <<"&">>
sLt ==
    <<"<">>
sGt ==
    <<">">>
sCommaSpace ==
    <<",", " ">>
fEventHANDLER ==
    <<"e", "v", "e", "n", "t", "H", "A", "N", "D", "L", "E", "R">>
fEvent ==
    <<"E", "v", "e", "n", "t">>
fHandler ==
    <<"H", "a", "n", "d", "l", "e", "r">>
fMouse ==
    <<"M", "o", "u", "s", "e">>
fBar ==
    <<" ", "|", " ">>
fX ==
    <<"x">>
fTypeArg ==
    <<"<", "T", ">">>
sInterfaceSp ==
    <<"I", "n", "t", "e", "r", "f", "a", "c", "e", " ">>
sHasUnexpectedParent ==
    <<" ", "h", "a", "s", " ", "u", "n", "e", "x", "p", "e", "c", "t", "e", "d", " ", "p", "a", "r", "e", "n", "t", " ", "i", "n", "t", "e", "r", "f", "a", "c", "e", ":", " ">>
sUnexpectedStructureType ==
    <<"U", "n", "e", "x", "p", "e", "c", "t", "e", "d", " ", "s", "t", "r", "u", "c", "t", "u", "r", "e", ".", "t", "y", "p", "e", " ", "t", "y", "p", "e", ":", " ">>
sUndefined ==
    <<"u", "n", "d", "e", "f", "i", "n", "e", "d">>
sCannotFindTarget ==
    <<"C", "a", "n", "n", "o", "t", " ", "f", "i", "n", "d", " ", "t", "a", "r", "g", "e", "t", " ", "i", "d", "e", "n", "t", "i", "f", "i", "e", "r">>
nOnClick ==
    <<"o", "n", "C", "l", "i", "c", "k">>
nOnclick ==
    <<"o", "n", "c", "l", "i", "c", "k">>
nTabIndex ==
    <<"t", "a", "b", "I", "n", "d", "e", "x">>
nChildren ==
    <<"c", "h", "i", "l", "d", "r", "e", "n">>
nKey ==
    <<"k", "e", "y">>
nT ==
    <<"T">>
nFoo ==
    <<"F", "o", "o">>
nNumber ==
    <<"n", "u", "m", "b", "e", "r">>
nBoolean ==
    <<"b", "o", "o", "l", "e", "a", "n">>
nMouseEventHandler ==
    <<"M", "o", "u", "s", "e", "E", "v", "e", "n", "t", "H", "a", "n", "d", "l", "e", "r">>
sInterfaceKw ==
    <<"i", "n", "t", "e", "r", "f", "a", "c", "e", " ">>
sExtendsKw ==
    <<" ", "e", "x", "t", "e", "n", "d", "s", " ">>
sOpenBrace ==
    <<" ", "{", " ">>
sCloseBrace ==
    <<"}">>
sQuestion ==
    <<"?">>
sColonSpace ==
    <<":", " ">>
sSemiSpace ==
    <<";", " ">>
nAnchorHTMLAttributes ==
    <<"A", "n", "c", "h", "o", "r", "H", "T", "M", "L", "A", "t", "t", "r", "i", "b", "u", "t", "e", "s">>
nSVGProps ==
    <<"S", "V", "G", "P", "r", "o", "p", "s">>
nHTMLElement ==
    <<"H", "T", "M", "L", "E", "l", "e", "m", "e", "n", "t">>
nInner ==
    <<"I", "n", "n", "e", "r">>
nUnrelated ==
    <<"U", "n", "r", "e", "l", "a", "t", "e", "d">>
nA ==
    <<"a">>
nSvg ==
    <<"s", "v", "g">>
nDiv ==
    <<"d", "i", "v">>
nBaz ==
    <<"B", "a", "z">>
nReferrerPolicyType ==
    <<"'", "'", " ", "|", " ", "'", "n", "o", "-", "r", "e", "f", "e", "r", "r", "e", "r", "'">>
nVhtmlAttributes ==
    <<"V", "h", "t", "m", "l", "A", "t", "t", "r", "i", "b", "u", "t", "e", "s">>
nAnyArray ==
    <<"a", "n", "y", "[", "]">>
nStale ==
    <<"S", "t", "a", "l", "e">>

(***************************************************************************)
(* Characters.                                                             *)
(***************************************************************************)
Range(s) ==
    { s[i] : i \in 1..Len(s) }

\* String.prototype.toLowerCase, one character
ToLowerChar(c) ==
    IF \E i \in 1..Len(sUpper) : sUpper[i] = c
    THEN sLower[CHOOSE i \in 1..Len(sUpper) : sUpper[i] = c]
    ELSE c

\* String.prototype.toLowerCase
ToLowerCase(s) ==
    [i \in 1..Len(s) |-> ToLowerChar(s[i])]

\* Canonicalize of an /i regular expression: the character's upper case
Canonicalize(c) ==
    IF \E i \in 1..Len(sLower) : sLower[i] = c
    THEN sUpper[CHOOSE i \in 1..Len(sLower) : sLower[i] = c]
    ELSE c

\* \w of a regular expression
IsWordChar(c) ==
    c \in Range(sUpper) \cup Range(sLower) \cup Range(sDigitsUnderscore)

\* \b of a regular expression, at the position before character p of s
WordBoundary(s, p) ==
    LET before == p - 1 >= 1 /\ p - 1 <= Len(s) /\ IsWordChar(s[p - 1])
        after  == p >= 1 /\ p <= Len(s) /\ IsWordChar(s[p])
    IN  before # after

(***************************************************************************)
(* normalizeAttributeType                                                  *)
(***************************************************************************)
\* /EventHandler/i matched at position i of s
EventHandlerAt(s, i) ==
    /\ i + Len(sEventHandler) - 1 <= Len(s)
    /\ \A k \in 1..Len(sEventHandler) :
           Canonicalize(s[i + k - 1]) = Canonicalize(sEventHandler[k])

\* /EventHandler/i.test(s): the regular expression tried at each position in turn
RECURSIVE TestEventHandlerFrom(_, _)
TestEventHandlerFrom(s, i) ==
    IF i > Len(s) THEN FALSE
    ELSE IF EventHandlerAt(s, i) THEN TRUE
    ELSE TestEventHandlerFrom(s, i + 1)

TestEventHandler(s) ==
    TestEventHandlerFrom(s, 1)

\* /\bword\b/ matched at position i of s
WordAt(s, i, word) ==
    /\ i + Len(word) - 1 <= Len(s)
    /\ SubSeq(s, i, i + Len(word) - 1) = word
    /\ WordBoundary(s, i)
    /\ WordBoundary(s, i + Len(word))

\* s.replace(/\bword\b/g, replacement), scanning from position i
RECURSIVE ReplaceFrom(_, _, _, _)
ReplaceFrom(s, i, word, replacement) ==
    IF i > Len(s) THEN << >>
    ELSE IF WordAt(s, i, word)
         THEN replacement \o ReplaceFrom(s, i + Len(word), word, replacement)
         ELSE << s[i] >> \o ReplaceFrom(s, i + 1, word, replacement)

ReplaceWord(s, word, replacement) ==
    ReplaceFrom(s, 1, word, replacement)

\* a variant that takes any type mentioning ReactNode for the node type
normalizeAttributeTypeContains(t) ==
    IF TestEventHandler(t) THEN sString
    ELSE IF \E i \in 1..Len(t) :
                /\ i + Len(sReactNode) - 1 <= Len(t)
                /\ SubSeq(t, i, i + Len(sReactNode) - 1) = sReactNode
         THEN sAny
    ELSE ReplaceWord(ReplaceWord(t, sCSSProperties, sString),
                     sBooleanish, sBooleanUnion)

normalizeAttributeType(t) ==
    IF TestEventHandler(t) THEN sString
    ELSE IF t = sReactNode THEN sAny
    ELSE ReplaceWord(ReplaceWord(t, sCSSProperties, sString),
                     sBooleanish, sBooleanUnion)

(***************************************************************************)
(* Values that stand for "nothing": no error, no node.                      *)
(***************************************************************************)
NoError ==
    [kind |-> "none", message |-> << >>]

NoPath ==
    << >>

NoInterface ==
    [kind |-> "none", name |-> << >>, typeParameters |-> << >>,
     extends |-> << >>, properties |-> << >>, text |-> << >>,
     statements |-> << >>]


(***************************************************************************)
(* Sequences.                                                              *)
(***************************************************************************)
RECURSIVE Concat(_)
Concat(parts) ==
    IF parts = << >> THEN << >> ELSE Head(parts) \o Concat(Tail(parts))

SeqsUpTo(S, n) ==
    UNION { [1..k -> S] : k \in 0..n }

(***************************************************************************)
(* Syntax tree nodes (ts-morph).  A type node is                           *)
(*   Identifier      text                                                  *)
(*   QualifiedName   children << left, right >>                            *)
(*   TypeReference   children << typeName, typeArgument, ... >>            *)
(*   Type            any other type, known by its text only                *)
(*   None            no type annotation                                    *)
(***************************************************************************)
Identifier(text) ==
    [kind |-> "Identifier", text |-> text, children |-> << >>]

QualifiedName(left, right) ==
    [kind |-> "QualifiedName", text |-> << >>, children |-> << left, right >>]

TypeReference(typeName, typeArguments) ==
    [kind |-> "TypeReference", text |-> << >>,
     children |-> << typeName >> \o typeArguments]

\* the type node a type text is parsed to by setType / set(structure)
TypeOfText(text) ==
    [kind |-> "Type", text |-> text, children |-> << >>]

NoTypeNode ==
    [kind |-> "None", text |-> << >>, children |-> << >>]

RECURSIVE JoinWith(_, _)
JoinWith(parts, separator) ==
    IF parts = << >> THEN << >>
    ELSE IF Len(parts) = 1 THEN parts[1]
    ELSE parts[1] \o separator \o JoinWith(Tail(parts), separator)

\* Node.getText() of a type node
RECURSIVE GetText(_)
GetText(node) ==
    CASE node.kind = "QualifiedName" ->
             GetText(node.children[1]) \o sDot \o GetText(node.children[2])
      [] node.kind = "TypeReference" ->
             GetText(node.children[1]) \o
             ( IF Len(node.children) = 1 THEN << >>
               ELSE sLt \o JoinWith([i \in 1..(Len(node.children) - 1) |->
                                        GetText(node.children[i + 1])],
                                    sCommaSpace) \o sGt )
      [] OTHER -> node.text

\* a property signature: name, question token, type node
PropertySignature(name, hasQuestionToken, typeNode) ==
    [name |-> name, hasQuestionToken |-> hasQuestionToken, typeNode |-> typeNode]

\* PropertySignature.getStructure(): type is the type node's text, or
\* undefined (hasType FALSE) when the property has no type annotation
GetStructure(propertySignature) ==
    [name |-> propertySignature.name,
     hasQuestionToken |-> propertySignature.hasQuestionToken,
     hasType |-> propertySignature.typeNode.kind # "None",
     type |-> GetText(propertySignature.typeNode)]

\* the property signature written from a structure (set / addProperty)
FromStructure(structure) ==
    PropertySignature(structure.name, structure.hasQuestionToken,
                      IF structure.hasType THEN TypeOfText(structure.type)
                      ELSE NoTypeNode)

\* an extends clause: expression with type arguments
ExtendsExpr(expression, typeArguments) ==
    [expression |-> expression, typeArguments |-> typeArguments]

\* ExpressionWithTypeArguments.getText()
ExtendsText(e) ==
    e.expression \o
    ( IF e.typeArguments = << >> THEN << >>
      ELSE sLt \o JoinWith(e.typeArguments, sCommaSpace) \o sGt )

\* statements of a declaration file
InterfaceDeclaration(name, typeParameters, extends, properties) ==
    [kind |-> "interface", name |-> name, typeParameters |-> typeParameters,
     extends |-> extends, properties |-> properties, text |-> << >>,
     statements |-> << >>]

TypeAliasDeclaration(name, text) ==
    [kind |-> "typeAlias", name |-> name, typeParameters |-> << >>,
     extends |-> << >>, properties |-> << >>, text |-> text,
     statements |-> << >>]

NamespaceDeclaration(name, statements) ==
    [kind |-> "namespace", name |-> name, typeParameters |-> << >>,
     extends |-> << >>, properties |-> << >>, text |-> << >>,
     statements |-> statements]

(***************************************************************************)
(* updateAttributesInterface                                               *)
(***************************************************************************)
AssertionError(message) ==
    [kind |-> "AssertionError", message |-> message]

\* the nodes of a list other than the one that came from snapshot position k
\* (a node is removed by identity: origin is its position in the snapshot
\* taken by getExtends() / getProperties(), 0 for a node added since)
RemoveOrigin(cur, k) ==
    SelectSeq(cur, LAMBDA n : n.origin # k)

Tagged(nodes) ==
    [i \in 1..Len(nodes) |-> [origin |-> i, node |-> nodes[i]]]

Untagged(cur) ==
    [i \in 1..Len(cur) |-> cur[i].node]

\* a variant without the blacklist
IsBlacklistedParentNever(exprText) ==
    FALSE

\* exprText === "ClassAttributes"
IsBlacklistedParent(exprText) ==
    exprText = sClassAttributes

IsExpectedParent(exprText) ==
    \/ exprText = sAriaAttributes
    \/ exprText = sDOMAttributes
    \/ exprText = sHTMLAttributes
    \/ exprText = sMediaHTMLAttributes
    \/ exprText = sSVGAttributes

\* the clause addExtends(exprText) appends
AddedExtends(exprText) ==
    ExtendsExpr(exprText, << >>)

\* getExtends().forEach(...), from snapshot position k on
RECURSIVE UpdateExtendsFrom(_, _, _, _)
UpdateExtendsFrom(name, snapshot, k, cur) ==
    IF k > Len(snapshot) THEN [thrown |-> NoError, extends |-> Untagged(cur)]
    ELSE LET exprText == snapshot[k].expression
         IN  IF IsBlacklistedParent(exprText)
             THEN UpdateExtendsFrom(name, snapshot, k + 1, RemoveOrigin(cur, k))
             ELSE IF ~IsExpectedParent(exprText)
             THEN [thrown |-> AssertionError(sInterfaceSp \o name \o
                                             sHasUnexpectedParent \o exprText),
                   extends |-> Untagged(cur)]
             ELSE UpdateExtendsFrom(name, snapshot, k + 1,
                      Append(RemoveOrigin(cur, k),
                             [origin |-> 0, node |-> AddedExtends(exprText)]))

\* a variant whose drop list lacks suppressHydrationWarning
IsDroppedPropertyShort(propName) ==
    \/ propName = sDefaultChecked
    \/ propName = sDefaultValue
    \/ propName = sSuppressContentEditableWarning

IsDroppedProperty(propName) ==
    \/ propName = sDefaultChecked
    \/ propName = sDefaultValue
    \/ propName = sSuppressContentEditableWarning
    \/ propName = sSuppressHydrationWarning

\* a variant that converts className and htmlFor to lowercase too
KeepsNameInnerHTMLOnly(propName) ==
    propName = sDangerouslySetInnerHTML

\* the property names that are not converted to lowercase
KeepsName(propName) ==
    \/ propName = sClassName
    \/ propName = sDangerouslySetInnerHTML
    \/ propName = sHtmlFor

\* the structure after "Normalize types" and "Convert property names"
UpdatedStructure(structure, propName) ==
    [structure EXCEPT
        !.type = IF propName # sDangerouslySetInnerHTML
                 THEN normalizeAttributeType(@) ELSE @,
        !.name = IF ~KeepsName(propName) THEN ToLowerCase(propName) ELSE @]

\* the copies added under the original attribute name
AliasedCopies(structure, propName) ==
    IF propName = sClassName THEN << [structure EXCEPT !.name = sClass] >>
    ELSE IF propName = sHtmlFor THEN << [structure EXCEPT !.name = sFor] >>
    ELSE << >>

\* getProperties().forEach(...), from snapshot position k on
RECURSIVE UpdatePropertiesFrom(_, _, _)
UpdatePropertiesFrom(snapshot, k, cur) ==
    IF k > Len(snapshot) THEN [thrown |-> NoError, properties |-> Untagged(cur)]
    ELSE LET propName == snapshot[k].name
             structure == GetStructure(snapshot[k])
             updated == UpdatedStructure(structure, propName)
             copies == AliasedCopies(updated, propName)
         IN  IF IsDroppedProperty(propName)
             THEN UpdatePropertiesFrom(snapshot, k + 1, RemoveOrigin(cur, k))
             ELSE IF ~structure.hasType
             THEN [thrown |-> AssertionError(sUnexpectedStructureType \o sUndefined),
                   properties |-> Untagged(cur)]
             ELSE UpdatePropertiesFrom(snapshot, k + 1,
                      [i \in 1..Len(cur) |->
                          IF cur[i].origin = k
                          THEN [origin |-> k, node |-> FromStructure(updated)]
                          ELSE cur[i]]
                      \o [i \in 1..Len(copies) |->
                             [origin |-> 0, node |-> FromStructure(copies[i])]])

\* the interface node as updateAttributesInterface leaves it, and what it threw
updateAttributesInterface(node) ==
    LET e == UpdateExtendsFrom(node.name, node.extends, 1, Tagged(node.extends))
        p == UpdatePropertiesFrom(node.properties, 1, Tagged(node.properties))
        afterExtends == [node EXCEPT !.typeParameters = << >>,
                                     !.extends = e.extends]
    IN  IF e.thrown # NoError
        THEN [thrown |-> e.thrown, node |-> afterExtends]
        ELSE [thrown |-> p.thrown,
              node |-> [afterExtends EXCEPT !.properties = p.properties]]

(***************************************************************************)
(* Statements of a source file.  A node is referred to by its path: the    *)
(* positions leading to it through the nested statement lists.             *)
(***************************************************************************)
RECURSIVE NodeAt(_, _)
NodeAt(statements, path) ==
    IF Len(path) = 1 THEN statements[path[1]]
    ELSE NodeAt(statements[path[1]].statements, Tail(path))

\* the statements with the node at path replaced (a node mutated in place)
RECURSIVE SetNodeAt(_, _, _)
SetNodeAt(statements, path, node) ==
    IF Len(path) = 1 THEN [statements EXCEPT ![path[1]] = node]
    ELSE [statements EXCEPT
             ![path[1]].statements = SetNodeAt(@, Tail(path), node)]

\* position of the first statement of that kind and name, 0 when there is none
FirstNamed(statements, kind, name) ==
    LET found == { i \in 1..Len(statements) :
                     statements[i].kind = kind /\ statements[i].name = name }
    IN  IF found = {} THEN 0
        ELSE CHOOSE i \in found : \A j \in found : i <= j

\* path of sourceFile.getNamespaceOrThrow("global").getNamespaceOrThrow("JSX"),
\* NoPath when either throws
JsxNamespacePath(sourceFile) ==
    LET g == FirstNamed(sourceFile, "namespace", sGlobal)
    IN  IF g = 0 THEN NoPath
        ELSE LET j == FirstNamed(sourceFile[g].statements, "namespace", sJSX)
             IN  IF j = 0 THEN NoPath ELSE << g, j >>

\* path of ...getInterfaceOrThrow("IntrinsicElements"), NoPath when it throws
IntrinsicElementsPath(sourceFile) ==
    LET ns == JsxNamespacePath(sourceFile)
    IN  IF ns = NoPath THEN NoPath
        ELSE LET k == FirstNamed(NodeAt(sourceFile, ns).statements,
                                 "interface", sIntrinsicElements)
             IN  IF k = 0 THEN NoPath ELSE Append(ns, k)

(***************************************************************************)
(* getAllInterfacesAndTypeAliases: the paths of all interfaces and type    *)
(* aliases under a list of statements, nested namespaces included, in      *)
(* document order.                                                         *)
(***************************************************************************)
RECURSIVE AllInterfacesAndTypeAliasesFrom(_, _, _)
AllInterfacesAndTypeAliasesFrom(statements, prefix, i) ==
    IF i > Len(statements) THEN << >>
    ELSE LET c == statements[i]
             rest == AllInterfacesAndTypeAliasesFrom(statements, prefix, i + 1)
         IN  IF c.kind \in { "interface", "typeAlias" }
             THEN << Append(prefix, i) >> \o rest
             ELSE IF c.kind = "namespace"
             THEN AllInterfacesAndTypeAliasesFrom(c.statements, Append(prefix, i), 1)
                  \o rest
             ELSE rest

getAllInterfacesAndTypeAliases(sourceFile) ==
    AllInterfacesAndTypeAliasesFrom(sourceFile, << >>, 1)

(***************************************************************************)
(* extractIntrinsicElementsInterface                                       *)
(***************************************************************************)
\* a variant that accepts React.DetailedHTMLProps as well
IsTargetQualifiedNameAny(node) ==
    /\ node.kind = "QualifiedName"
    /\ GetText(node.children[1]) = sReact
    /\ node.children[2].kind = "Identifier"

\* the callback of forEachDescendant: a qualified name React.XXX, XXX other
\* than DetailedHTMLProps
IsTargetQualifiedName(node) ==
    /\ node.kind = "QualifiedName"
    /\ GetText(node.children[1]) = sReact
    /\ node.children[2].kind = "Identifier"
    /\ GetText(node.children[2]) # sDetailedHTMLProps

\* forEachDescendant over the children from position i on: each child, then
\* its descendants, then the next child; stops at the first node the callback
\* accepts and returns its right-hand identifier, NoTypeNode when none does
RECURSIVE ForEachDescendantFrom(_, _)
ForEachDescendantFrom(children, i) ==
    IF i > Len(children) THEN NoTypeNode
    ELSE IF IsTargetQualifiedName(children[i]) THEN children[i].children[2]
    ELSE LET below == ForEachDescendantFrom(children[i].children, 1)
         IN  IF below # NoTypeNode THEN below
             ELSE ForEachDescendantFrom(children, i + 1)

TargetInterfaceIdentifier(typeNode) ==
    ForEachDescendantFrom(typeNode.children, 1)

\* getProperties().forEach(...), from position k on; each property's type is
\* set in place as it is reached
RECURSIVE ExtractPropertiesFrom(_, _, _)
ExtractPropertiesFrom(properties, k, names) ==
    IF k > Len(properties)
    THEN [thrown |-> NoError, properties |-> properties, names |-> names]
    ELSE IF properties[k].typeNode.kind = "None"
    THEN [thrown |-> [kind |-> "Error", message |-> << >>],
          properties |-> properties, names |-> names]
    ELSE LET target == TargetInterfaceIdentifier(properties[k].typeNode)
         IN  IF target = NoTypeNode
             THEN [thrown |-> AssertionError(sCannotFindTarget),
                   properties |-> properties, names |-> names]
             ELSE ExtractPropertiesFrom(
                      [properties EXCEPT ![k].typeNode = TypeOfText(GetText(target))],
                      k + 1, names \cup { GetText(target) })

\* what extractIntrinsicElementsInterface throws or returns: the path of the
\* interface, the Set of names, and the source file with the interface's
\* properties rewritten
extractIntrinsicElementsInterface(sourceFile) ==
    LET path == IntrinsicElementsPath(sourceFile)
    IN  IF path = NoPath
        THEN [thrown |-> [kind |-> "Error", message |-> << >>],
              path |-> NoPath, names |-> {}, sourceFile |-> sourceFile]
        ELSE LET node == NodeAt(sourceFile, path)
                 r == ExtractPropertiesFrom(node.properties, 1, {})
             IN  [thrown |-> r.thrown,
                  path |-> path,
                  names |-> r.names,
                  sourceFile |-> SetNodeAt(sourceFile, path,
                                     [node EXCEPT !.properties = r.properties])]

(***************************************************************************)
(* generateJsxTypesForVhtml, stage by stage                                *)
(***************************************************************************)
\* "Interfaces and type aliases that should always be included"
AlwaysIncluded ==
    { sAriaAttributes, sDOMAttributes, sHTMLAttributeReferrerPolicy,
      sHTMLAttributes, sMediaHTMLAttributes, sSVGAttributes }

\* the loop of the second pass over allInterfacesAndTypeAliases, from
\* position k on
RECURSIVE SecondPassFrom(_, _, _, _, _)
SecondPassFrom(sourceFile, all, k, names, extracted) ==
    IF k > Len(all)
    THEN [thrown |-> NoError, sourceFile |-> sourceFile, extracted |-> extracted]
    ELSE LET n == NodeAt(sourceFile, all[k])
         IN  IF n.name \notin names
             THEN SecondPassFrom(sourceFile, all, k + 1, names, extracted)
             ELSE IF n.kind = "interface"
             THEN LET r == updateAttributesInterface(n)
                      updated == SetNodeAt(sourceFile, all[k], r.node)
                  IN  IF r.thrown # NoError
                      THEN [thrown |-> r.thrown, sourceFile |-> updated,
                            extracted |-> extracted]
                      ELSE SecondPassFrom(updated, all, k + 1, names,
                                          Append(extracted, all[k]))
             ELSE SecondPassFrom(sourceFile, all, k + 1, names,
                                 Append(extracted, all[k]))

\* InterfaceDeclaration.getText()
InterfaceText(node) ==
    sInterfaceKw \o node.name \o
    ( IF node.typeParameters = << >> THEN << >>
      ELSE sLt \o JoinWith(node.typeParameters, sCommaSpace) \o sGt ) \o
    ( IF node.extends = << >> THEN << >>
      ELSE sExtendsKw \o
           JoinWith([i \in 1..Len(node.extends) |-> ExtendsText(node.extends[i])],
                    sCommaSpace) ) \o
    sOpenBrace \o
    Concat([i \in 1..Len(node.properties) |->
               node.properties[i].name \o
               (IF node.properties[i].hasQuestionToken THEN sQuestion ELSE << >>) \o
               (IF node.properties[i].typeNode.kind = "None" THEN << >>
                ELSE sColonSpace \o GetText(node.properties[i].typeNode)) \o
               sSemiSpace]) \o
    sCloseBrace

\* a variant that joins the clauses without parentheses
IntersectionTypeBare(extends) ==
    JoinWith([i \in 1..Len(extends) |-> ExtendsText(extends[i])], sAmp)

\* the type of the alias an interface without properties is converted to
IntersectionType(extends) ==
    JoinWith([i \in 1..Len(extends) |->
                 sLParen \o ExtendsText(extends[i]) \o sRParen], sAmp)

\* whether an extracted interface is converted to a type alias
IsConvertedToAlias(node) ==
    Len(node.properties) = 0

\* the statement the emit loop adds to the JSX namespace for an extracted
\* node: a type alias (name, type in text), or the node's own text (an
\* interface is kept with the text it was added from)
EmittedStatement(node) ==
    IF node.kind = "interface"
    THEN IF IsConvertedToAlias(node)
         THEN TypeAliasDeclaration(node.name, IntersectionType(node.extends))
         ELSE [node EXCEPT !.text = InterfaceText(node)]
    ELSE node

\* addInterface(intrinsicElementsInterface.getStructure()): a copy built from
\* the structure
StructureCopy(node) ==
    InterfaceDeclaration(node.name, node.typeParameters, node.extends,
        [i \in 1..Len(node.properties) |->
            FromStructure(GetStructure(node.properties[i]))])

\* the template's statements after "Buildng type definition file..."
BuiltSourceFile(template, source, iePath, extracted) ==
    LET ns == JsxNamespacePath(template)
        jsx == NodeAt(template, ns)
        added == << StructureCopy(NodeAt(source, iePath)) >> \o
                 [i \in 1..Len(extracted) |->
                     EmittedStatement(NodeAt(source, extracted[i]))]
    IN  SetNodeAt(template, ns, [jsx EXCEPT !.statements = @ \o added])

\* a variant in which a failed stage is followed by the next one
AfterStageAlways(error, next) ==
    next

\* where the run continues after a stage: nowhere when the stage threw
AfterStage(error, next) ==
    IF error = NoError THEN next ELSE "aborted"
(***************************************************************************)
(* Specification SpecNorm: normalizeAttributeType applied to a type string *)
(* built from at most MaxFrags fragments.                                  *)
(***************************************************************************)
MaxFrags == 3

Fragments ==
    { sEventHandler, fEventHANDLER, fEvent, fHandler, fMouse, sReactNode,
      sCSSProperties, sBooleanish, fBar, fX, fTypeArg }

InputTypes ==
    { Concat(fs) : fs \in SeqsUpTo(Fragments, MaxFrags) }

NormInit ==
    /\ pc = "normalize"
    /\ attrType \in InputTypes
    /\ normalizedType = << >>
    /\ sourceInterface = NoInterface
    /\ interfaceNode = NoInterface
    /\ thrown = NoError
    /\ inputSourceFile = << >>
    /\ reactSourceFile = << >>
    /\ intrinsicElementsInterface = NoPath
    /\ typeNamesToExtract = {}
    /\ extractedInterfaceNodes = << >>
    /\ outputFile = << >>

Normalize ==
    /\ pc = "normalize"
    /\ normalizedType' = normalizeAttributeType(attrType)
    /\ pc' = "normalized"
    /\ UNCHANGED << attrType, sourceInterface, interfaceNode, thrown, inputSourceFile,
                    reactSourceFile, intrinsicElementsInterface,
                    typeNamesToExtract, extractedInterfaceNodes, outputFile >>

NormNext ==
    Normalize

SpecNorm ==
    NormInit /\ [][NormNext]_vars

(***************************************************************************)
(* C5: normalizeAttributeType(t) is the three-case rule, in this order:    *)
(* (1) t contains "EventHandler" in any letter case: the result is         *)
(* `string`; (2) else t is exactly `ReactNode`: the result is `any`;       *)
(* (3) else the result is t with every whole-word CSSProperties replaced   *)
(* by `string` and every whole-word Booleanish by the boolean union, both  *)
(* found in t itself, and every other character kept.                      *)
(***************************************************************************)
\* word occurs in t at position i with no word character on either side
WholeWordAt(t, i, word) ==
    LET j == i + Len(word) - 1
    IN  /\ j <= Len(t)
        /\ \A k \in 1..Len(word) : t[i + k - 1] = word[k]
        /\ (i = 1 \/ ~IsWordChar(t[i - 1]))
        /\ (j = Len(t) \/ ~IsWordChar(t[j + 1]))

\* one pass over t replacing both words at once
RECURSIVE RefReplaceBoth(_, _)
RefReplaceBoth(t, i) ==
    IF i > Len(t) THEN << >>
    ELSE IF WholeWordAt(t, i, sCSSProperties)
         THEN sString \o RefReplaceBoth(t, i + Len(sCSSProperties))
    ELSE IF WholeWordAt(t, i, sBooleanish)
         THEN sBooleanUnion \o RefReplaceBoth(t, i + Len(sBooleanish))
    ELSE << t[i] >> \o RefReplaceBoth(t, i + 1)

RefContainsEventHandler(t) ==
    \E i \in 1..Len(t) :
        /\ i + Len(sEventHandler) - 1 <= Len(t)
        /\ ToLowerCase(SubSeq(t, i, i + Len(sEventHandler) - 1))
               = ToLowerCase(sEventHandler)

RefNormalize(t) ==
    IF RefContainsEventHandler(t) THEN sString
    ELSE IF t = sReactNode THEN sAny
    ELSE RefReplaceBoth(t, 1)

C5_ThreeCaseRule ==
    pc = "normalized" => normalizedType = RefNormalize(attrType)

\* all three cases have been exercised on inputs where they differ: here a
\* type that contains ReactNode and CSSProperties without being either
C5_Witness ==
    /\ pc = "normalized"
    /\ attrType = sReactNode \o fBar \o sCSSProperties
    /\ normalizedType = sReactNode \o fBar \o sString

(***************************************************************************)
(* Specification SpecUpd: updateAttributesInterface applied to one         *)
(* interface of the source tree, with at most MaxExtends extends clauses   *)
(* and at most MaxProps properties of pairwise distinct names.             *)
(***************************************************************************)
MaxExtends == 2

MaxProps == 2

TypeArgT ==
    TypeReference(Identifier(nT), << >>)

ClausePool ==
    { ExtendsExpr(sClassAttributes, << nT >>),
      ExtendsExpr(sHTMLAttributes, << nT >>),
      ExtendsExpr(sAriaAttributes, << >>),
      ExtendsExpr(nFoo, << nT >>) }

PropPool ==
    { PropertySignature(sClassName, TRUE, TypeReference(Identifier(sBooleanish), << >>)),
      PropertySignature(sHtmlFor, TRUE, TypeOfText(sString)),
      PropertySignature(sDangerouslySetInnerHTML, TRUE,
                        TypeReference(Identifier(sCSSProperties), << >>)),
      PropertySignature(sDefaultValue, TRUE, TypeOfText(sString)),
      PropertySignature(sDefaultChecked, TRUE, TypeOfText(nBoolean)),
      PropertySignature(sSuppressHydrationWarning, TRUE, TypeOfText(nBoolean)),
      PropertySignature(sSuppressContentEditableWarning, TRUE, TypeOfText(nBoolean)),
      PropertySignature(nOnClick, TRUE,
                        TypeReference(Identifier(nMouseEventHandler), << TypeArgT >>)),
      PropertySignature(nOnclick, FALSE, TypeOfText(sString)),
      PropertySignature(sClass, TRUE, TypeOfText(sString)),
      PropertySignature(nTabIndex, FALSE, TypeOfText(nNumber)),
      PropertySignature(nChildren, TRUE, TypeReference(Identifier(sReactNode), << >>)),
      PropertySignature(nKey, TRUE, NoTypeNode) }

DistinctNames(properties) ==
    \A i, j \in 1..Len(properties) :
        properties[i].name = properties[j].name => i = j

SourceInterfaces ==
    { InterfaceDeclaration(sHTMLAttributes, << nT >>, e, p) :
        e \in SeqsUpTo(ClausePool, MaxExtends),
        p \in { q \in SeqsUpTo(PropPool, MaxProps) : DistinctNames(q) } }

UpdInit ==
    /\ pc = "update"
    /\ sourceInterface \in SourceInterfaces
    /\ interfaceNode = sourceInterface
    /\ thrown = NoError
    /\ attrType = << >>
    /\ normalizedType = << >>
    /\ inputSourceFile = << >>
    /\ reactSourceFile = << >>
    /\ intrinsicElementsInterface = NoPath
    /\ typeNamesToExtract = {}
    /\ extractedInterfaceNodes = << >>
    /\ outputFile = << >>

Update ==
    /\ pc = "update"
    /\ LET r == updateAttributesInterface(interfaceNode)
       IN  /\ interfaceNode' = r.node
           /\ thrown' = r.thrown
           /\ pc' = IF r.thrown = NoError THEN "updated" ELSE "aborted"
    /\ UNCHANGED << attrType, normalizedType, sourceInterface, inputSourceFile,
                    reactSourceFile, intrinsicElementsInterface,
                    typeNamesToExtract, extractedInterfaceNodes, outputFile >>

UpdNext ==
    Update

SpecUpd ==
    UpdInit /\ [][UpdNext]_vars

\* the property signatures of a list, as a set
Props(node) ==
    { node.properties[i] : i \in 1..Len(node.properties) }

IsSubstring(sub, s) ==
    \E i \in 1..(Len(s) + 1) :
        /\ i + Len(sub) - 1 <= Len(s)
        /\ \A k \in 1..Len(sub) : s[i + k - 1] = sub[k]

(***************************************************************************)
(* C4 as stated: for every source property named className or htmlFor the  *)
(* normalized interface holds the duplicate named class (for) and the      *)
(* original under its lower-cased name, the two with identical types.      *)
(***************************************************************************)
AliasName(name) ==
    IF name = sClassName THEN sClass ELSE sFor

C4_LowercaseOriginal ==
    pc = "updated" =>
        \A p \in Props(sourceInterface) :
            p.name \in { sClassName, sHtmlFor } =>
                \E d, o \in Props(interfaceNode) :
                    /\ d.name = AliasName(p.name)
                    /\ o.name = ToLowerCase(p.name)
                    /\ GetText(d.typeNode) = GetText(o.typeNode)

(***************************************************************************)
(* C4 amended: for every source property named className or htmlFor the    *)
(* normalized interface holds the duplicate named class (for) and the      *)
(* original under its exact name className (htmlFor), the two with         *)
(* identical types and the same question token.                            *)
(***************************************************************************)
C4_ExactOriginal ==
    pc = "updated" =>
        \A p \in Props(sourceInterface) :
            p.name \in { sClassName, sHtmlFor } =>
                \E d, o \in Props(interfaceNode) :
                    /\ d.name = AliasName(p.name)
                    /\ o.name = p.name
                    /\ d.typeNode.kind # "None"
                    /\ GetText(d.typeNode) = GetText(o.typeNode)
                    /\ d.hasQuestionToken = o.hasQuestionToken

\* className?: Booleanish was normalized and duplicated under class
C4_Witness ==
    /\ pc = "updated"
    /\ \E p \in Props(sourceInterface) :
           p.name = sClassName /\ GetText(p.typeNode) = sBooleanish
    /\ \E d, o \in Props(interfaceNode) :
           /\ d.name = sClass
           /\ o.name = sClassName
           /\ GetText(d.typeNode) = sBooleanUnion
           /\ GetText(o.typeNode) = sBooleanUnion

(***************************************************************************)
(* C6: the extends clauses are rewritten so that every ClassAttributes     *)
(* clause is removed without trace, every clause of an allow-listed callee *)
(* becomes the bare name without type arguments (the clauses keeping their *)
(* order), and a clause of any other callee is a fatal error whose message *)
(* names the interface and the unexpected parent.                          *)
(***************************************************************************)
AllowList ==
    { sAriaAttributes, sDOMAttributes, sHTMLAttributes, sMediaHTMLAttributes,
      sSVGAttributes }

UnexpectedClause(e) ==
    e.expression # sClassAttributes /\ e.expression \notin AllowList

C6_ExtendsRewrite ==
    pc \in { "updated", "aborted" } =>
        LET src == sourceInterface.extends
            kept == SelectSeq(src, LAMBDA e : e.expression # sClassAttributes)
        IN  IF \E i \in 1..Len(src) : UnexpectedClause(src[i])
            THEN /\ pc = "aborted"
                 /\ thrown.kind = "AssertionError"
                 /\ \E i \in 1..Len(src) :
                        /\ UnexpectedClause(src[i])
                        /\ IsSubstring(sInterfaceSp \o sourceInterface.name, thrown.message)
                        /\ IsSubstring(sHasUnexpectedParent \o src[i].expression,
                                       thrown.message)
            ELSE /\ Len(interfaceNode.extends) = Len(kept)
                 /\ \A i \in 1..Len(kept) :
                        /\ interfaceNode.extends[i].expression = kept[i].expression
                        /\ interfaceNode.extends[i].typeArguments = << >>
                        /\ ExtendsText(interfaceNode.extends[i]) = kept[i].expression
                 /\ \A i \in 1..Len(interfaceNode.extends) :
                        ~IsSubstring(sClassAttributes,
                                     ExtendsText(interfaceNode.extends[i]))

\* extends ClassAttributes<T>, HTMLAttributes<T> became extends HTMLAttributes
C6_Witness ==
    /\ pc = "updated"
    /\ Len(sourceInterface.extends) = 2
    /\ ExtendsText(sourceInterface.extends[1]) = sClassAttributes \o fTypeArg
    /\ ExtendsText(sourceInterface.extends[2]) = sHTMLAttributes \o fTypeArg
    /\ Len(interfaceNode.extends) = 1
    /\ ExtendsText(interfaceNode.extends[1]) = sHTMLAttributes

\* extends Foo<T> was refused
C6_WitnessFatal ==
    /\ pc = "aborted"
    /\ thrown.message = sInterfaceSp \o sHTMLAttributes \o sHasUnexpectedParent \o nFoo

(***************************************************************************)
(* C9: after updateAttributesInterface returns, no property is named       *)
(* defaultChecked, defaultValue, suppressContentEditableWarning or         *)
(* suppressHydrationWarning, and every other source property is present    *)
(* with its question token kept and its name lower-cased, except that      *)
(* className, dangerouslySetInnerHTML and htmlFor keep their exact names.  *)
(* The dropped properties leave nothing behind: the interface holds one    *)
(* property for each other source property, plus the class / for copies.   *)
(***************************************************************************)
DropList ==
    { sDefaultChecked, sDefaultValue, sSuppressContentEditableWarning,
      sSuppressHydrationWarning }

ExactNames ==
    { sClassName, sDangerouslySetInnerHTML, sHtmlFor }

C9_DroppedAndLowercased ==
    pc = "updated" =>
        /\ \A q \in Props(interfaceNode) : q.name \notin DropList
        /\ Len(interfaceNode.properties) =
               Cardinality({ i \in 1..Len(sourceInterface.properties) :
                               sourceInterface.properties[i].name \notin DropList })
               + Cardinality({ i \in 1..Len(sourceInterface.properties) :
                                 sourceInterface.properties[i].name
                                     \in { sClassName, sHtmlFor } })
        /\ \A p \in Props(sourceInterface) :
               p.name \notin DropList =>
                   \E q \in Props(interfaceNode) :
                       /\ q.name = IF p.name \in ExactNames THEN p.name
                                   ELSE ToLowerCase(p.name)
                       /\ q.hasQuestionToken = p.hasQuestionToken

\* onClick?: MouseEventHandler<T> became onclick?: string, beside a dropped
\* defaultValue
C9_Witness ==
    /\ pc = "updated"
    /\ \E p \in Props(sourceInterface) :
           /\ p.name = nOnClick
           /\ p.hasQuestionToken
           /\ GetText(p.typeNode) = nMouseEventHandler \o fTypeArg
    /\ \E p \in Props(sourceInterface) : p.name = sDefaultValue
    /\ interfaceNode.properties =
           << PropertySignature(nOnclick, TRUE, TypeOfText(sString)) >>

(***************************************************************************)
(* C10: if the property names of the source interface are pairwise         *)
(* distinct, so are the property names after updateAttributesInterface.    *)
(***************************************************************************)
C10_NamesStayDistinct ==
    (pc = "updated" /\ DistinctNames(sourceInterface.properties))
        => DistinctNames(interfaceNode.properties)

(***************************************************************************)
(* Specification Spec: one run of generateJsxTypesForVhtml, stage by       *)
(* stage, over a template file and a React declaration file that holds at  *)
(* most MaxDecls declarations in its React namespace.                      *)
(***************************************************************************)
MaxDecls == 2

\* what a previous run left at the output path
PriorOutput ==
    << TypeAliasDeclaration(nStale, sAny) >>

VhtmlAttributes ==
    InterfaceDeclaration(nVhtmlAttributes, << >>, << >>,
        << PropertySignature(nChildren, TRUE, TypeOfText(nAnyArray)) >>)

\* input/vhtml.d.ts, and the same with declare global { namespace JSX {} }
Templates ==
    { << VhtmlAttributes >>,
      << VhtmlAttributes, NamespaceDeclaration(sGlobal, << >>) >>,
      << VhtmlAttributes,
         NamespaceDeclaration(sGlobal, << NamespaceDeclaration(sJSX, << >>) >>) >> }

ReactRef(name, typeArguments) ==
    TypeReference(QualifiedName(Identifier(sReact), Identifier(name)), typeArguments)

ElementRef ==
    TypeReference(Identifier(nHTMLElement), << >>)

\* a: React.DetailedHTMLProps<React.AnchorHTMLAttributes<HTMLElement>, HTMLElement>
AnchorProperty ==
    PropertySignature(nA, FALSE,
        ReactRef(sDetailedHTMLProps,
                 << ReactRef(nAnchorHTMLAttributes, << ElementRef >>), ElementRef >>))

\* svg: React.SVGProps<HTMLElement>
SvgProperty ==
    PropertySignature(nSvg, FALSE, ReactRef(nSVGProps, << ElementRef >>))

\* div: React.DetailedHTMLProps<HTMLElement>: no usable target identifier
DivProperty ==
    PropertySignature(nDiv, FALSE, ReactRef(sDetailedHTMLProps, << ElementRef >>))

IntrinsicElementsInterfaces ==
    { InterfaceDeclaration(sIntrinsicElements, << >>, << >>, p) :
        p \in { << >>, << AnchorProperty >>, << AnchorProperty, SvgProperty >>,
                << SvgProperty, DivProperty >> } }

GlobalDeclarations ==
    { << >>,
      << NamespaceDeclaration(sGlobal, << >>) >>,
      << NamespaceDeclaration(sGlobal, << NamespaceDeclaration(sJSX, << >>) >>) >> }
    \cup
    { << NamespaceDeclaration(sGlobal, << NamespaceDeclaration(sJSX, << ie >>) >>) >> :
        ie \in IntrinsicElementsInterfaces }

ClassNameProperty ==
    PropertySignature(sClassName, TRUE, TypeOfText(sString))

DeclPool ==
    { InterfaceDeclaration(sHTMLAttributes, << nT >>,
          << ExtendsExpr(sAriaAttributes, << >>), ExtendsExpr(sDOMAttributes, << nT >>) >>,
          << ClassNameProperty >>),
      InterfaceDeclaration(sAriaAttributes, << >>, << >>, << >>),
      InterfaceDeclaration(sSVGAttributes, << nT >>,
          << ExtendsExpr(sAriaAttributes, << >>), ExtendsExpr(sDOMAttributes, << nT >>) >>,
          << PropertySignature(sDefaultValue, TRUE, TypeOfText(sString)) >>),
      InterfaceDeclaration(nAnchorHTMLAttributes, << nT >>,
          << ExtendsExpr(sClassAttributes, << nT >>), ExtendsExpr(sHTMLAttributes, << nT >>) >>,
          << >>),
      InterfaceDeclaration(sMediaHTMLAttributes, << nT >>,
          << ExtendsExpr(nFoo, << nT >>) >>, << >>),
      InterfaceDeclaration(sDOMAttributes, << nT >>, << >>,
          << PropertySignature(nKey, TRUE, NoTypeNode) >>),
      NamespaceDeclaration(nInner,
          << TypeAliasDeclaration(sHTMLAttributeReferrerPolicy, nReferrerPolicyType) >>),
      InterfaceDeclaration(nUnrelated, << >>, << ExtendsExpr(nFoo, << >>) >>, << >>) }

ReactSources ==
    { << NamespaceDeclaration(sReact, d) >> \o g :
        d \in SeqsUpTo(DeclPool, MaxDecls), g \in GlobalDeclarations }

Init ==
    /\ pc = "load"
    /\ inputSourceFile \in Templates
    /\ reactSourceFile \in ReactSources
    /\ intrinsicElementsInterface = NoPath
    /\ typeNamesToExtract = {}
    /\ extractedInterfaceNodes = << >>
    /\ outputFile = PriorOutput
    /\ thrown = NoError
    /\ attrType = << >>
    /\ normalizedType = << >>
    /\ sourceInterface = NoInterface
    /\ interfaceNode = NoInterface

\* lines 207-216: the files are parsed, global.JSX is looked up in the template
Load ==
    /\ pc = "load"
    /\ LET error == IF JsxNamespacePath(inputSourceFile) = NoPath
                    THEN [kind |-> "Error", message |-> << >>] ELSE NoError
       IN  /\ thrown' = error
           /\ pc' = AfterStage(error, "firstPass")
    /\ UNCHANGED << attrType, normalizedType, sourceInterface, interfaceNode,
                    inputSourceFile, reactSourceFile, intrinsicElementsInterface,
                    typeNamesToExtract, extractedInterfaceNodes, outputFile >>

\* lines 223-239: the first pass, and the names that are always included
FirstPass ==
    /\ pc = "firstPass"
    /\ LET r == extractIntrinsicElementsInterface(reactSourceFile)
       IN  /\ thrown' = r.thrown
           /\ reactSourceFile' = r.sourceFile
           /\ intrinsicElementsInterface' = r.path
           /\ typeNamesToExtract' =
                  IF r.thrown = NoError THEN r.names \cup AlwaysIncluded ELSE {}
           /\ pc' = AfterStage(r.thrown, "secondPass")
    /\ UNCHANGED << attrType, normalizedType, sourceInterface, interfaceNode,
                    inputSourceFile, extractedInterfaceNodes, outputFile >>

\* lines 241-262: the second pass
SecondPass ==
    /\ pc = "secondPass"
    /\ LET r == SecondPassFrom(reactSourceFile,
                               getAllInterfacesAndTypeAliases(reactSourceFile),
                               1, typeNamesToExtract, << >>)
       IN  /\ thrown' = r.thrown
           /\ reactSourceFile' = r.sourceFile
           /\ extractedInterfaceNodes' = r.extracted
           /\ pc' = AfterStage(r.thrown, "build")
    /\ UNCHANGED << attrType, normalizedType, sourceInterface, interfaceNode,
                    inputSourceFile, intrinsicElementsInterface,
                    typeNamesToExtract, outputFile >>

\* lines 264-287: the declarations are added to the template's JSX namespace
Build ==
    /\ pc = "build"
    /\ inputSourceFile' = BuiltSourceFile(inputSourceFile, reactSourceFile,
                              intrinsicElementsInterface, extractedInterfaceNodes)
    /\ pc' = "write"
    /\ UNCHANGED << attrType, normalizedType, sourceInterface, interfaceNode,
                    thrown, reactSourceFile, intrinsicElementsInterface,
                    typeNamesToExtract, extractedInterfaceNodes, outputFile >>

\* lines 289-297: the output file is created from the template's text and saved
\* (a file's contents are kept as the statements its text holds)
Write ==
    /\ pc = "write"
    /\ outputFile' = inputSourceFile
    /\ pc' = "done"
    /\ UNCHANGED << attrType, normalizedType, sourceInterface, interfaceNode,
                    thrown, inputSourceFile, reactSourceFile,
                    intrinsicElementsInterface, typeNamesToExtract,
                    extractedInterfaceNodes >>

Next ==
    \/ Load
    \/ FirstPass
    \/ SecondPass
    \/ Build
    \/ Write

Spec ==
    Init /\ [][Next]_vars

\* the statements of the template's JSX namespace
JsxStatements ==
    NodeAt(inputSourceFile, JsxNamespacePath(inputSourceFile)).statements

\* the statement the emit step added for the k-th extracted declaration (they
\* follow the copy of IntrinsicElements at the end of the namespace)
EmittedFor(k) ==
    JsxStatements[Len(JsxStatements) - Len(extractedInterfaceNodes) + k]

ExtractedNode(k) ==
    NodeAt(reactSourceFile, extractedInterfaceNodes[k])

Emitted ==
    pc \in { "write", "done" }

(***************************************************************************)
(* C1: in the emit step every extracted interface that has no property     *)
(* after normalization is emitted as a type alias of the same name whose   *)
(* type is its rewritten extends clauses, each in parentheses, joined with *)
(* & in clause order; every extracted interface with a property is emitted *)
(* as an interface, with its full text, never as an alias.                 *)
(***************************************************************************)
RefIntersection(extends) ==
    Concat([i \in 1..Len(extends) |->
               (IF i > 1 THEN sAmp ELSE << >>) \o
               sLParen \o extends[i].expression \o sRParen])

C1_EmptyInterfaceBecomesAlias ==
    Emitted =>
        \A k \in 1..Len(extractedInterfaceNodes) :
            ExtractedNode(k).kind = "interface" =>
                IF ExtractedNode(k).properties = << >>
                THEN /\ EmittedFor(k).kind = "typeAlias"
                     /\ EmittedFor(k).name = ExtractedNode(k).name
                     /\ EmittedFor(k).text = RefIntersection(ExtractedNode(k).extends)
                ELSE /\ EmittedFor(k).kind = "interface"
                     /\ EmittedFor(k).name = ExtractedNode(k).name
                     /\ EmittedFor(k).text = InterfaceText(ExtractedNode(k))

\* SVGAttributes, left without property, was emitted as
\* type SVGAttributes = (AriaAttributes)&(DOMAttributes), beside HTMLAttributes
\* emitted as an interface
C1_Witness ==
    /\ Emitted
    /\ \E k \in 1..Len(extractedInterfaceNodes) :
           /\ EmittedFor(k).kind = "typeAlias"
           /\ EmittedFor(k).name = sSVGAttributes
           /\ EmittedFor(k).text = sLParen \o sAriaAttributes \o sRParen \o sAmp \o
                                   sLParen \o sDOMAttributes \o sRParen
    /\ \E k \in 1..Len(extractedInterfaceNodes) :
           /\ EmittedFor(k).kind = "interface"
           /\ EmittedFor(k).name = sHTMLAttributes

(***************************************************************************)
(* C2: an extracted interface is emitted as an intersection type alias     *)
(* only if it has no property and a non-empty list of extends clauses      *)
(* after normalization.                                                    *)
(***************************************************************************)
C2_AliasOnlyWithExtends ==
    Emitted =>
        \A k \in 1..Len(extractedInterfaceNodes) :
            (ExtractedNode(k).kind = "interface" /\ EmittedFor(k).kind = "typeAlias")
                => /\ ExtractedNode(k).properties = << >>
                   /\ ExtractedNode(k).extends # << >>

(***************************************************************************)
(* C3: every name of the Type-Name Set resolves to exactly one interface   *)
(* or type alias of the source tree, or else the run ends in a fatal error *)
(* and does not go on to emit.                                             *)
(***************************************************************************)
DeclarationsNamed(name) ==
    { i \in 1..Len(getAllInterfacesAndTypeAliases(reactSourceFile)) :
        NodeAt(reactSourceFile,
               getAllInterfacesAndTypeAliases(reactSourceFile)[i]).name = name }

C3_NamesResolveOnce ==
    pc \in { "build", "write", "done" } =>
        \A name \in typeNamesToExtract : Cardinality(DeclarationsNamed(name)) = 1

(***************************************************************************)
(* C8: a run that fails at any stage aborts there and leaves the output    *)
(* file as it was; the output file is written only after every earlier     *)
(* stage has completed: the template holds global.JSX, the source holds    *)
(* IntrinsicElements with a target identifier for every property, and each *)
(* extracted interface has expected parents only and typed properties.     *)
(***************************************************************************)
C8_AbortWritesNothing ==
    /\ thrown # NoError => pc = "aborted"
    /\ pc = "aborted" => thrown # NoError
    /\ pc # "done" => outputFile = PriorOutput
    /\ pc = "done" => outputFile = inputSourceFile /\ outputFile # PriorOutput
    /\ pc \in { "firstPass", "secondPass", "build", "write", "done" } =>
           JsxNamespacePath(inputSourceFile) # NoPath
    /\ pc \in { "secondPass", "build", "write", "done" } =>
           /\ intrinsicElementsInterface # NoPath
           /\ intrinsicElementsInterface = IntrinsicElementsPath(reactSourceFile)
           /\ \A p \in Props(NodeAt(reactSourceFile, intrinsicElementsInterface)) :
                  /\ p.typeNode.kind = "Type"
                  /\ p.typeNode.text \in typeNamesToExtract
    /\ pc \in { "build", "write", "done" } =>
           \A k \in 1..Len(extractedInterfaceNodes) :
               /\ \A i \in 1..Len(ExtractedNode(k).extends) :
                      ExtractedNode(k).extends[i].expression \in AllowList
               /\ ExtractedNode(k).kind = "interface" =>
                      \A p \in Props(ExtractedNode(k)) : p.typeNode.kind = "Type"

\* the second pass met an unexpected parent: the run is over, nothing written
C8_Witness ==
    /\ pc = "aborted"
    /\ thrown = AssertionError(sInterfaceSp \o sMediaHTMLAttributes \o
                               sHasUnexpectedParent \o nFoo)
    /\ intrinsicElementsInterface # NoPath
    /\ outputFile = PriorOutput

(***************************************************************************)
(* Specification SpecExtract: extractIntrinsicElementsInterface applied to *)
(* a source file whose IntrinsicElements has at most MaxIEProps properties.*)
(***************************************************************************)
MaxIEProps == 2

ExtractTypePool ==
    { AnchorProperty.typeNode,
      SvgProperty.typeNode,
      DivProperty.typeNode,
      \* Foo.React.Baz: the left side is Foo.React
      TypeReference(QualifiedName(QualifiedName(Identifier(nFoo), Identifier(sReact)),
                                  Identifier(nBaz)), << >>),
      \* React.Baz.Foo: the left side is React.Baz, itself a qualified name
      TypeReference(QualifiedName(QualifiedName(Identifier(sReact), Identifier(nBaz)),
                                  Identifier(nFoo)), << >>),
      \* Foo<React.SVGProps, React.AnchorHTMLAttributes>
      TypeReference(Identifier(nFoo),
                    << ReactRef(nSVGProps, << >>), ReactRef(nAnchorHTMLAttributes, << >>) >>),
      \* React.DetailedHTMLProps<Foo<React.AnchorHTMLAttributes>, React.SVGProps>
      ReactRef(sDetailedHTMLProps,
               << TypeReference(Identifier(nFoo), << ReactRef(nAnchorHTMLAttributes, << >>) >>),
                  ReactRef(nSVGProps, << >>) >>),
      NoTypeNode }

ExtractSources ==
    { << NamespaceDeclaration(sGlobal, << NamespaceDeclaration(sJSX,
           << InterfaceDeclaration(sIntrinsicElements, << >>, << >>,
                  [i \in 1..Len(t) |-> PropertySignature(nDiv, FALSE, t[i])]) >>) >>) >> :
        t \in SeqsUpTo(ExtractTypePool, MaxIEProps) }

ExtractInit ==
    /\ pc = "extract"
    /\ reactSourceFile \in ExtractSources
    /\ sourceInterface = NodeAt(reactSourceFile, IntrinsicElementsPath(reactSourceFile))
    /\ interfaceNode = NoInterface
    /\ intrinsicElementsInterface = NoPath
    /\ typeNamesToExtract = {}
    /\ thrown = NoError
    /\ attrType = << >>
    /\ normalizedType = << >>
    /\ inputSourceFile = << >>
    /\ extractedInterfaceNodes = << >>
    /\ outputFile = << >>

Extract ==
    /\ pc = "extract"
    /\ LET r == extractIntrinsicElementsInterface(reactSourceFile)
       IN  /\ thrown' = r.thrown
           /\ reactSourceFile' = r.sourceFile
           /\ intrinsicElementsInterface' = r.path
           /\ typeNamesToExtract' = r.names
           /\ pc' = IF r.thrown = NoError THEN "extracted" ELSE "aborted"
    /\ UNCHANGED << attrType, normalizedType, sourceInterface, interfaceNode,
                    inputSourceFile, extractedInterfaceNodes, outputFile >>

ExtractNext ==
    Extract

SpecExtract ==
    ExtractInit /\ [][ExtractNext]_vars

(***************************************************************************)
(* C7: every property of global.JSX.IntrinsicElements gets as its type the *)
(* right-hand identifier of the first sub-expression, in depth-first       *)
(* document order, that is a qualified name with left side React and right *)
(* side other than DetailedHTMLProps; the call fails if a property has     *)
(* none; the set returned holds exactly the identifiers so written.        *)
(***************************************************************************)
\* the descendants of a node in document order
RECURSIVE Descendants(_)
Descendants(node) ==
    Concat([i \in 1..Len(node.children) |->
               << node.children[i] >> \o Descendants(node.children[i])])

RefIsTarget(d) ==
    /\ d.kind = "QualifiedName"
    /\ d.children[1] = Identifier(sReact)
    /\ d.children[2].text # sDetailedHTMLProps

RefTargets(typeNode) ==
    { i \in 1..Len(Descendants(typeNode)) : RefIsTarget(Descendants(typeNode)[i]) }

RefTargetText(typeNode) ==
    LET first == CHOOSE i \in RefTargets(typeNode) :
                     \A j \in RefTargets(typeNode) : i <= j
    IN  Descendants(typeNode)[first].children[2].text

C7_FirstReactName ==
    pc \in { "extracted", "aborted" } =>
        LET src == sourceInterface.properties
        IN  IF \E i \in 1..Len(src) : RefTargets(src[i].typeNode) = {}
            THEN pc = "aborted" /\ thrown # NoError
            ELSE LET out == NodeAt(reactSourceFile, intrinsicElementsInterface).properties
                 IN  /\ pc = "extracted"
                     /\ intrinsicElementsInterface = IntrinsicElementsPath(reactSourceFile)
                     /\ Len(out) = Len(src)
                     /\ \A i \in 1..Len(src) :
                            /\ out[i].name = src[i].name
                            /\ GetText(out[i].typeNode) = RefTargetText(src[i].typeNode)
                     /\ typeNamesToExtract =
                            { RefTargetText(src[i].typeNode) : i \in 1..Len(src) }

\* React.DetailedHTMLProps<Foo<React.AnchorHTMLAttributes>, React.SVGProps>
\* became AnchorHTMLAttributes: the nested name comes before the later sibling
C7_Witness ==
    /\ pc = "extracted"
    /\ Len(sourceInterface.properties) = 2
    /\ GetText(sourceInterface.properties[1].typeNode) =
           sReact \o sDot \o sDetailedHTMLProps \o sLt \o nFoo \o sLt \o sReact \o sDot \o
           nAnchorHTMLAttributes \o sGt \o sCommaSpace \o sReact \o sDot \o nSVGProps \o sGt
    /\ typeNamesToExtract = { nAnchorHTMLAttributes, nSVGProps }
    /\ GetText(NodeAt(reactSourceFile, intrinsicElementsInterface)
                   .properties[1].typeNode) = nAnchorHTMLAttributes
====
